---------------------------- MODULE Spec2Model ----------------------------
(***************************************************************************)
(* Model of ml_eda/reporting/recommendation.py: the four threshold         *)
(* checkers check_missing, check_cardinality, check_pearson_correlation    *)
(* and check_p_value, run by client threads over shared Analysis records.  *)
(*                                                                         *)
(* Numbers.  A ScalarMetric value is a float.  A value is modelled by the  *)
(* integer number of 1/Scale units of the decimal literal it was built     *)
(* from (0.456 is 45600).  Every value of the model has at most five       *)
(* decimals, so the comparisons the code makes between floats agree with   *)
(* the exact comparisons made here: the thresholds are the floats nearest  *)
(* to 0.1, 0.3 and 0.05, conversion to float is monotone, and two distinct *)
(* values of the model are many ulps apart.                                *)
(***************************************************************************)
EXTENDS Integers, Sequences, FiniteSets, TLC

VARIABLES
    records,  \* the Analysis records built by the analysis engine, by id
    active,   \* the client threads that call the checkers
    loc,      \* per thread: the frame (locals and position) of its call
    calls,    \* number of calls the clients still make
    memo      \* an outcome a client kept from an earlier call

vars == <<records, active, loc, calls, memo>>

-----------------------------------------------------------------------------
(* Bounds of the model *)

MaxMetrics == 2
MaxFeatures == 3
MaxCalls == 3

Procs == {"t1", "t2"}

-----------------------------------------------------------------------------
(* Numbers *)

Scale == 10 ^ 5

Abs(x) == IF x < 0 THEN -x ELSE x

RECURSIVE Gcd(_, _)
Gcd(a, b) == IF b = 0 THEN a ELSE Gcd(b, a % b)

\* The rational n/d in lowest terms with a positive denominator (d # 0).
Rat(n, d) ==
    LET g == Gcd(Abs(n), Abs(d))
        s == IF d < 0 THEN -1 ELSE 1
    IN  [num |-> (s * n) \div g, den |-> (s * d) \div g]

NoRate == [num |-> 0, den |-> 0]

RatGt(x, y) == x.num * y.den > y.num * x.den
RatLt(x, y) == x.num * y.den < y.num * x.den

\* The number a metric value of v units stands for.
ValueRat(v) == Rat(v, Scale)

\* n / unit rounded to the nearest integer, ties to even (n >= 0, unit > 0).
RoundHalfEven(n, unit) ==
    LET q == n \div unit
        r == n % unit
    IN  IF 2 * r > unit \/ (2 * r = unit /\ q % 2 = 1) THEN q + 1 ELSE q

RECURSIVE NumDigits(_)
NumDigits(n) == IF n < 10 THEN 1 ELSE 1 + NumDigits(n \div 10)

-----------------------------------------------------------------------------
(* Thresholds *)

MISSING_THRESHOLD == Rat(1, 10)
CARDINALITY_THRESHOLD == 100
CORRELATION_COEFFICIENT_THRESHOLD == Rat(3, 10)
P_VALUE_THRESHOLD == Rat(5, 100)

-----------------------------------------------------------------------------
(* Formatting *)

\* A value handed to a template: how it was formatted, and two integers.
\*   "float": the float itself, a/b in lowest terms
\*   ".2f"  : a hundredths, b = 2 decimals shown
\*   ".2E"  : mantissa a (three digits, signed), shown as a/100 E b
NoValue == [fmt |-> "", a |-> 0, b |-> 0]

FloatValue(r) == [fmt |-> "float", a |-> r.num, b |-> r.den]

\* "{0:.2f}".format(v): the nearest hundredth of the float, sign kept.  On a
\* tie the float's exact binary value decides; the ties among the values of
\* the model (0.375) are binary fractions, for which it is the even one.
Format2f(v) ==
    LET h == RoundHalfEven(Abs(v) * 100, Scale)
    IN  [fmt |-> ".2f", a |-> IF v < 0 THEN -h ELSE h, b |-> 2]

\* "{:.2E}".format(Decimal(str(v))): three significant digits, rounded half
\* even on the decimal literal, and the decimal exponent.  str(0.0) is '0.0',
\* a Decimal of exponent -1, which formats as 0.00E+1.
FormatSci(v) ==
    IF v = 0 THEN [fmt |-> ".2E", a |-> 0, b |-> 1]
    ELSE LET n == Abs(v)
             d == NumDigits(n)
             e == d - NumDigits(Scale)
             m == IF d <= 3 THEN n * 10 ^ (3 - d)
                            ELSE RoundHalfEven(n, 10 ^ (d - 3))
             mm == IF m = 1000 THEN 100 ELSE m
             ee == IF m = 1000 THEN e + 1 ELSE e
         IN  [fmt |-> ".2E", a |-> IF v < 0 THEN -mm ELSE mm, b |-> ee]

-----------------------------------------------------------------------------
(* run_metadata_pb2: metric kinds, analysis kinds, records *)

\* The kinds the checkers look for, and OTHER for every kind none of their
\* loops matches (the statistic of a test, such as its p-value).
MetricNames ==
    {"TOTAL_COUNT", "MISSING", "CARDINALITY", "CORRELATION_COEFFICIENT",
     "OTHER"}

\* Analysis.Name values and the display names Analysis.Name.Name gives them.
AnalysisNames == {1, 2}
AnalysisNameName(n) == IF n = 1 THEN "T_TEST" ELSE "CHI_SQUARE"

\* The values each kind of metric takes in the model, in 1/Scale units.
MetricValues(k) ==
    CASE k = "TOTAL_COUNT" -> {0, 10 * Scale}
      [] k = "MISSING" -> {1 * Scale, 2 * Scale}
      [] k = "CARDINALITY" -> {0, 100 * Scale, 101 * Scale}
      [] k = "CORRELATION_COEFFICIENT" -> {-45000, -30000, 30000, 37500, 45600}
      [] k = "OTHER" -> {31, 4567, 4995, 5000}

ScalarMetrics ==
    UNION {{[name |-> k, value |-> v] : v \in MetricValues(k)} : k \in MetricNames}

SeqsUpTo(S, n) == UNION {[1..k -> S] : k \in 0..n}

\* Feature names are not interpreted: a record of k features carries the
\* first k of these.
AllFeatureNames == <<"age", "income", "height", "weight", "zip">>
Features(k) == [j \in 1..k |-> [name |-> AllFeatureNames[j]]]

AnalysisRecords ==
    {[name |-> n, features |-> Features(k), smetrics |-> ms] :
        n \in AnalysisNames, k \in 0..MaxFeatures,
        ms \in SeqsUpTo(ScalarMetrics, MaxMetrics)}

AttributeNames == {"zip", "city"}


-----------------------------------------------------------------------------
(* Outcomes of a call: a return value (None or a rendered template) or an *)
(* exception.  A template is kept as its key and its named arguments.     *)

NoResult ==
    [type |-> "pending", template |-> "", name |-> "", name_one |-> "",
     name_two |-> "", metric |-> "", value |-> NoValue, test_name |-> "",
     error |-> ""]

ReturnNone == [NoResult EXCEPT !.type = "None"]

Raise(e) == [NoResult EXCEPT !.type = "raise", !.error = e]

ValueErrorEmpty == Raise("ValueError: The dataset is empty")
IndexError == Raise("IndexError")

HIGH_MISSING(name, value) ==
    [NoResult EXCEPT !.type = "str", !.template = "HIGH_MISSING",
                     !.name = name, !.value = value]

HIGH_CARDINALITY(name, value) ==
    [NoResult EXCEPT !.type = "str", !.template = "HIGH_CARDINALITY",
                     !.name = name, !.value = value]

HIGH_CORRELATION(name_one, name_two, metric, value) ==
    [NoResult EXCEPT !.type = "str", !.template = "HIGH_CORRELATION",
                     !.name_one = name_one, !.name_two = name_two,
                     !.metric = metric, !.value = value]

LOW_P_VALUE(name_one, name_two, metric, value, test_name) ==
    [NoResult EXCEPT !.type = "str", !.template = "LOW_P_VALUE",
                     !.name_one = name_one, !.name_two = name_two,
                     !.metric = metric, !.value = value,
                     !.test_name = test_name]

-----------------------------------------------------------------------------
(* Frames: the locals of one call and its position in the function *)

Checkers ==
    {"check_missing", "check_cardinality", "check_pearson_correlation",
     "check_p_value"}

NoMetric == [name |-> "", value |-> 0]

IdleFrame ==
    [pc |-> "idle", fn |-> "", attribute_name |-> "", analysis |-> 0,
     i |-> 0, total |-> 0, missing |-> 0, missing_rate |-> NoRate,
     cardinality |-> 0, coefficient |-> 0, name_list |-> <<>>,
     metric |-> NoMetric, analysis_name |-> "", p_value |-> 0,
     result |-> NoResult]

Finish(l, r) == [l EXCEPT !.pc = "done", !.result = r]

\* [att.name for att in analysis.features]
NameList(a) == [j \in 1..Len(a.features) |-> a.features[j].name]

\* The call itself: the arguments are bound and the statements before the
\* first loop or index run (lines 44-46, 81-82, 108-110).  analysis is a
\* reference to the record: id is its key in records.
Enter(fn, attribute_name, id, a) ==
    LET l == [IdleFrame EXCEPT !.fn = fn, !.analysis = id]
    IN  CASE fn = "check_missing" ->
               [l EXCEPT !.pc = "missing_for", !.attribute_name = attribute_name,
                         !.i = 1, !.total = 0, !.missing = 0]
          [] fn = "check_cardinality" ->
               [l EXCEPT !.pc = "cardinality_for",
                         !.attribute_name = attribute_name,
                         !.i = 1, !.cardinality = 0]
          [] fn = "check_pearson_correlation" ->
               [l EXCEPT !.pc = "pearson_for", !.i = 1,
                         !.name_list = NameList(a), !.coefficient = 0]
          [] fn = "check_p_value" ->
               [l EXCEPT !.pc = "p_value_metric"]

(* check_missing *)

\* One turn of the loop of lines 48-52, or its end.
check_missing_for(l, a) ==
    IF l.i > Len(a.smetrics)
    THEN [l EXCEPT !.pc = "missing_total"]
    ELSE LET item == a.smetrics[l.i]
         IN  IF item.name = "TOTAL_COUNT"
             THEN [l EXCEPT !.i = @ + 1, !.total = item.value]
             ELSE IF item.name = "MISSING"
                  THEN [l EXCEPT !.i = @ + 1, !.missing = item.value]
                  ELSE [l EXCEPT !.i = @ + 1]

\* Faulty variant of lines 54-57: an empty dataset is passed over in silence.
check_missing_total_silent(l, a) ==
    IF l.total = 0
    THEN Finish(l, ReturnNone)
    ELSE [l EXCEPT !.pc = "missing_return",
                   !.missing_rate = Rat(l.missing, l.total)]

\* Lines 54-57: the guard against an empty dataset, then the division.
check_missing_total(l, a) ==
    IF l.total = 0
    THEN Finish(l, ValueErrorEmpty)
    ELSE [l EXCEPT !.pc = "missing_return",
                   !.missing_rate = Rat(l.missing, l.total)]

\* Faulty variant of lines 59-65: the threshold itself already counts.
check_missing_return_ge(l, a) ==
    IF ~RatLt(l.missing_rate, MISSING_THRESHOLD)
    THEN Finish(l, HIGH_MISSING(l.attribute_name, FloatValue(l.missing_rate)))
    ELSE Finish(l, ReturnNone)

\* Lines 59-65.
check_missing_return(l, a) ==
    IF RatGt(l.missing_rate, MISSING_THRESHOLD)
    THEN Finish(l, HIGH_MISSING(l.attribute_name, FloatValue(l.missing_rate)))
    ELSE Finish(l, ReturnNone)

(* check_cardinality *)

\* Faulty variant of lines 84-86: after the loop a cardinality of 0 is
\* rejected the way check_missing rejects a total of 0.
check_cardinality_for_strict(l, a) ==
    IF l.i > Len(a.smetrics)
    THEN IF l.cardinality = 0
         THEN Finish(l, ValueErrorEmpty)
         ELSE [l EXCEPT !.pc = "cardinality_return"]
    ELSE LET item == a.smetrics[l.i]
         IN  IF item.name = "CARDINALITY"
             THEN [l EXCEPT !.i = @ + 1, !.cardinality = item.value]
             ELSE [l EXCEPT !.i = @ + 1]

\* One turn of the loop of lines 84-86, or its end.
check_cardinality_for(l, a) ==
    IF l.i > Len(a.smetrics)
    THEN [l EXCEPT !.pc = "cardinality_return"]
    ELSE LET item == a.smetrics[l.i]
         IN  IF item.name = "CARDINALITY"
             THEN [l EXCEPT !.i = @ + 1, !.cardinality = item.value]
             ELSE [l EXCEPT !.i = @ + 1]

\* Faulty variant of lines 88-94: the threshold itself already counts.
check_cardinality_return_ge(l, a) ==
    IF ~RatLt(ValueRat(l.cardinality), Rat(CARDINALITY_THRESHOLD, 1))
    THEN Finish(l, HIGH_CARDINALITY(l.attribute_name,
                                    FloatValue(ValueRat(l.cardinality))))
    ELSE Finish(l, ReturnNone)

\* Lines 88-94.
check_cardinality_return(l, a) ==
    IF RatGt(ValueRat(l.cardinality), Rat(CARDINALITY_THRESHOLD, 1))
    THEN Finish(l, HIGH_CARDINALITY(l.attribute_name,
                                    FloatValue(ValueRat(l.cardinality))))
    ELSE Finish(l, ReturnNone)

(* check_pearson_correlation *)

\* One turn of the loop of lines 112-114, or its end.
check_pearson_correlation_for(l, a) ==
    IF l.i > Len(a.smetrics)
    THEN [l EXCEPT !.pc = "pearson_return"]
    ELSE LET item == a.smetrics[l.i]
         IN  IF item.name = "CORRELATION_COEFFICIENT"
             THEN [l EXCEPT !.i = @ + 1, !.coefficient = item.value]
             ELSE [l EXCEPT !.i = @ + 1]

\* Faulty variant of lines 116-124: the coefficient is compared without abs.
check_pearson_correlation_return_signed(l, a) ==
    IF RatGt(ValueRat(l.coefficient), CORRELATION_COEFFICIENT_THRESHOLD)
    THEN IF Len(l.name_list) < 2
         THEN Finish(l, IndexError)
         ELSE Finish(l, HIGH_CORRELATION(l.name_list[1], l.name_list[2],
                                         "correlation coefficient",
                                         Format2f(l.coefficient)))
    ELSE Finish(l, ReturnNone)

\* Faulty variant of lines 116-124: the two names are read before the
\* comparison.
check_pearson_correlation_return_eager(l, a) ==
    IF Len(l.name_list) < 2
    THEN Finish(l, IndexError)
    ELSE IF RatGt(ValueRat(Abs(l.coefficient)),
                  CORRELATION_COEFFICIENT_THRESHOLD)
         THEN Finish(l, HIGH_CORRELATION(l.name_list[1], l.name_list[2],
                                         "correlation coefficient",
                                         Format2f(l.coefficient)))
         ELSE Finish(l, ReturnNone)

\* Lines 116-124: name_list[0] and name_list[1] are evaluated only in the
\* branch taken when the threshold is crossed.
check_pearson_correlation_return(l, a) ==
    IF RatGt(ValueRat(Abs(l.coefficient)), CORRELATION_COEFFICIENT_THRESHOLD)
    THEN IF Len(l.name_list) < 2
         THEN Finish(l, IndexError)
         ELSE Finish(l, HIGH_CORRELATION(l.name_list[1], l.name_list[2],
                                         "correlation coefficient",
                                         Format2f(l.coefficient)))
    ELSE Finish(l, ReturnNone)

(* check_p_value *)

\* Faulty variant of line 139: the metric is looked up by kind, as the other
\* checkers do, and not taken by position.
check_p_value_metric_by_kind(l, a) ==
    LET found == {j \in 1..Len(a.smetrics) : a.smetrics[j].name = "OTHER"}
    IN  IF found = {}
        THEN Finish(l, IndexError)
        ELSE [l EXCEPT !.pc = "p_value_names",
                       !.metric = a.smetrics[CHOOSE j \in found :
                                               \A k \in found : j <= k]]

\* Faulty variant of line 139: an empty metric sequence is guarded and gives
\* None.
check_p_value_metric_guarded(l, a) ==
    IF Len(a.smetrics) = 0
    THEN Finish(l, ReturnNone)
    ELSE [l EXCEPT !.pc = "p_value_names", !.metric = a.smetrics[1]]

\* Line 139: analysis.smetrics[0].
check_p_value_metric(l, a) ==
    IF Len(a.smetrics) = 0
    THEN Finish(l, IndexError)
    ELSE [l EXCEPT !.pc = "p_value_names", !.metric = a.smetrics[1]]

\* Lines 140-142.
check_p_value_names(l, a) ==
    [l EXCEPT !.pc = "p_value_return",
              !.analysis_name = AnalysisNameName(a.name),
              !.name_list = NameList(a),
              !.p_value = l.metric.value]

\* Lines 144-153.
check_p_value_return(l, a) ==
    IF RatLt(ValueRat(l.p_value), P_VALUE_THRESHOLD)
    THEN IF Len(l.name_list) < 2
         THEN Finish(l, IndexError)
         ELSE Finish(l, LOW_P_VALUE(l.name_list[1], l.name_list[2], "p-value",
                                    FormatSci(l.p_value), l.analysis_name))
    ELSE Finish(l, ReturnNone)

\* The next statement of a call in progress.
StepFrame(l, a) ==
    CASE l.pc = "missing_for" -> check_missing_for(l, a)
      [] l.pc = "missing_total" -> check_missing_total(l, a)
      [] l.pc = "missing_return" -> check_missing_return(l, a)
      [] l.pc = "cardinality_for" -> check_cardinality_for(l, a)
      [] l.pc = "cardinality_return" -> check_cardinality_return(l, a)
      [] l.pc = "pearson_for" -> check_pearson_correlation_for(l, a)
      [] l.pc = "pearson_return" -> check_pearson_correlation_return(l, a)
      [] l.pc = "p_value_metric" -> check_p_value_metric(l, a)
      [] l.pc = "p_value_names" -> check_p_value_names(l, a)
      [] l.pc = "p_value_return" -> check_p_value_return(l, a)

\* A call run from its first statement to its end with nothing between its
\* statements.
RECURSIVE RunFrame(_, _)
RunFrame(l, a) == IF l.pc = "done" THEN l ELSE RunFrame(StepFrame(l, a), a)

RunAlone(fn, attribute_name, id, a) ==
    RunFrame(Enter(fn, attribute_name, id, a), a).result

-----------------------------------------------------------------------------
(* The clients: threads that call the checkers on the records *)

NoMemo ==
    [set |-> FALSE, fn |-> "", attribute_name |-> "", analysis |-> 0,
     result |-> NoResult]

\* The record a frame's analysis argument refers to.
Analysis(l) == records[l.analysis]

\* A statement of thread p's call runs on p's frame and nothing else.
Statement(p, label, l2) ==
    /\ p \in active
    /\ loc[p].pc = label
    /\ loc' = [loc EXCEPT ![p] = l2]
    /\ UNCHANGED <<records, active, calls, memo>>

\* A client calls a checker on one of the records.
Call(p) ==
    /\ p \in active
    /\ loc[p].pc = "idle"
    /\ calls > 0
    /\ \E fn \in Checkers, attribute_name \in AttributeNames,
          id \in DOMAIN records :
          loc' = [loc EXCEPT
                    ![p] = Enter(fn, attribute_name, id, records[id])]
    /\ calls' = calls - 1
    /\ UNCHANGED <<records, active, memo>>

\* Faulty variant of the loop of lines 48-52: total and missing are module
\* globals, which every call of check_missing in progress reads.
CheckMissingFor_global(p) ==
    /\ p \in active
    /\ loc[p].pc = "missing_for"
    /\ LET l2 == check_missing_for(loc[p], Analysis(loc[p]))
       IN  loc' = [q \in Procs |->
                     IF q = p THEN l2
                     ELSE IF loc[q].pc \in {"missing_for", "missing_total"}
                          THEN [loc[q] EXCEPT !.total = l2.total,
                                              !.missing = l2.missing]
                          ELSE loc[q]]
    /\ UNCHANGED <<records, active, calls, memo>>

CheckMissingFor(p) ==
    Statement(p, "missing_for", check_missing_for(loc[p], Analysis(loc[p])))

CheckMissingTotal(p) ==
    Statement(p, "missing_total", check_missing_total(loc[p], Analysis(loc[p])))

CheckMissingReturn(p) ==
    Statement(p, "missing_return",
              check_missing_return(loc[p], Analysis(loc[p])))

\* Faulty variant of the loop of lines 84-86: the loop takes each entry out
\* of the record's metric sequence as it reads it.
CheckCardinalityFor_consuming(p) ==
    /\ p \in active
    /\ loc[p].pc = "cardinality_for"
    /\ LET id == loc[p].analysis
           l1 == [loc[p] EXCEPT !.i = 1]
       IN  IF Len(records[id].smetrics) = 0
           THEN /\ loc' = [loc EXCEPT ![p] = check_cardinality_for(l1, records[id])]
                /\ UNCHANGED records
           ELSE /\ loc' = [loc EXCEPT
                             ![p] = [check_cardinality_for(l1, records[id])
                                       EXCEPT !.i = 1]]
                /\ records' = [records EXCEPT ![id].smetrics = Tail(@)]
    /\ UNCHANGED <<active, calls, memo>>

CheckCardinalityFor(p) ==
    Statement(p, "cardinality_for",
              check_cardinality_for(loc[p], Analysis(loc[p])))

CheckCardinalityReturn(p) ==
    Statement(p, "cardinality_return",
              check_cardinality_return(loc[p], Analysis(loc[p])))

CheckPearsonCorrelationFor(p) ==
    Statement(p, "pearson_for",
              check_pearson_correlation_for(loc[p], Analysis(loc[p])))

CheckPearsonCorrelationReturn(p) ==
    Statement(p, "pearson_return",
              check_pearson_correlation_return(loc[p], Analysis(loc[p])))

CheckPValueMetric(p) ==
    Statement(p, "p_value_metric",
              check_p_value_metric(loc[p], Analysis(loc[p])))

CheckPValueNames(p) ==
    Statement(p, "p_value_names", check_p_value_names(loc[p], Analysis(loc[p])))

CheckPValueReturn(p) ==
    Statement(p, "p_value_return",
              check_p_value_return(loc[p], Analysis(loc[p])))

\* The call is over: the client has its outcome, keeps it or not, and the
\* frame is gone.
Return(p) ==
    /\ p \in active
    /\ loc[p].pc = "done"
    /\ loc' = [loc EXCEPT ![p] = IdleFrame]
    /\ \/ UNCHANGED memo
       \/ /\ ~memo.set
          /\ memo' = [set |-> TRUE, fn |-> loc[p].fn,
                      attribute_name |-> loc[p].attribute_name,
                      analysis |-> loc[p].analysis,
                      result |-> loc[p].result]
    /\ UNCHANGED <<records, active, calls>>

Next ==
    \E p \in Procs :
        \/ Call(p)
        \/ CheckMissingFor(p)
        \/ CheckMissingTotal(p)
        \/ CheckMissingReturn(p)
        \/ CheckCardinalityFor(p)
        \/ CheckCardinalityReturn(p)
        \/ CheckPearsonCorrelationFor(p)
        \/ CheckPearsonCorrelationReturn(p)
        \/ CheckPValueMetric(p)
        \/ CheckPValueNames(p)
        \/ CheckPValueReturn(p)
        \/ Return(p)

\* One checker applied once to one record: every record of the bounds.
Init ==
    /\ records \in {<<a>> : a \in AnalysisRecords}
    /\ active = {"t1"}
    /\ loc = [p \in Procs |-> IdleFrame]
    /\ calls = 1
    /\ memo = NoMemo

Spec == Init /\ [][Next]_vars

\* The records the threads share when they run in parallel.
SharedRecords ==
    {[name |-> 1, features |-> Features(2),
      smetrics |-> <<[name |-> "TOTAL_COUNT", value |-> 10 * Scale],
                     [name |-> "MISSING", value |-> 2 * Scale]>>],
     [name |-> 2, features |-> Features(2),
      smetrics |-> <<[name |-> "CORRELATION_COEFFICIENT", value |-> -45000],
                     [name |-> "CARDINALITY", value |-> 101 * Scale]>>],
     [name |-> 1, features |-> Features(1),
      smetrics |-> <<>>]}

\* Two threads, two records (the same one twice among them), several calls.
InitPar ==
    /\ records \in {<<a, b>> : a \in SharedRecords, b \in SharedRecords}
    /\ active = Procs
    /\ loc = [p \in Procs |-> IdleFrame]
    /\ calls = MaxCalls
    /\ memo = NoMemo

SpecPar == InitPar /\ [][Next]_vars

-----------------------------------------------------------------------------
(* What the claims speak of *)

\* Thread p's call of fn has ended and its outcome is not yet collected.
Ended(p, fn) == loc[p].pc = "done" /\ loc[p].fn = fn

\* The positions of the entries of kind k in record a.
EntriesOf(a, k) == {j \in 1..Len(a.smetrics) : a.smetrics[j].name = k}

AtMostOne(a, k) == Cardinality(EntriesOf(a, k)) <= 1

\* The value of a's entry of kind k, an absent entry counting as 0
\* (meant for records with at most one entry of the kind).
ValueOr0(a, k) ==
    IF EntriesOf(a, k) = {} THEN 0
    ELSE a.smetrics[CHOOSE j \in EntriesOf(a, k) : TRUE].value

\* The template value x is the float itself and that float is n/d (d > 0).
IsFloat(x, n, d) == x.fmt = "float" /\ x.b > 0 /\ x.a * d = n * x.b

IsNormal(r) == r.type \in {"None", "str"}

-----------------------------------------------------------------------------
(* C1 *)

C1Case(p) ==
    /\ Ended(p, "check_missing")
    /\ AtMostOne(Analysis(loc[p]), "TOTAL_COUNT")
    /\ AtMostOne(Analysis(loc[p]), "MISSING")
    /\ ValueOr0(Analysis(loc[p]), "TOTAL_COUNT") > 0
    /\ ValueOr0(Analysis(loc[p]), "MISSING") >= 0

\* C1: for total > 0 and missing >= 0 (absent MISSING = 0), check_missing
\* returns a HIGH_MISSING message iff missing/total > 0.10 strictly; the
\* message carries the attribute name given and the ratio missing/total;
\* otherwise the result is None.
C1_MissingThreshold ==
    \A p \in Procs :
        C1Case(p) =>
            LET total == ValueOr0(Analysis(loc[p]), "TOTAL_COUNT")
                missing == ValueOr0(Analysis(loc[p]), "MISSING")
                r == loc[p].result
            IN  IF 10 * missing > total
                THEN /\ r.type = "str"
                     /\ r.template = "HIGH_MISSING"
                     /\ r.name = loc[p].attribute_name
                     /\ IsFloat(r.value, missing, total)
                ELSE r = ReturnNone

\* A call that returned the message, and on a rate of 0.2.
C1_Witness ==
    \E p \in Procs :
        /\ C1Case(p)
        /\ loc[p].result.type = "str"
        /\ IsFloat(loc[p].result.value, 1, 5)

-----------------------------------------------------------------------------
(* C2 *)

TotalIsZero(a) ==
    /\ AtMostOne(a, "TOTAL_COUNT")
    /\ ValueOr0(a, "TOTAL_COUNT") = 0

\* C2: with total = 0 (a TOTAL_COUNT entry of 0 or none), whatever MISSING
\* is, check_missing ends with the empty-dataset error; the division is
\* never reached and neither None nor a message is returned.
C2_EmptyDatasetFails ==
    \A p \in Procs :
        (loc[p].fn = "check_missing" /\ TotalIsZero(Analysis(loc[p]))) =>
            /\ loc[p].pc # "missing_return"
            /\ loc[p].missing_rate = NoRate
            /\ loc[p].pc = "done" => loc[p].result = ValueErrorEmpty

\* The error raised on a record that has a MISSING entry and TOTAL_COUNT 0.
C2_Witness ==
    \E p \in Procs :
        /\ Ended(p, "check_missing")
        /\ TotalIsZero(Analysis(loc[p]))
        /\ EntriesOf(Analysis(loc[p]), "TOTAL_COUNT") # {}
        /\ EntriesOf(Analysis(loc[p]), "MISSING") # {}
        /\ loc[p].result = ValueErrorEmpty

-----------------------------------------------------------------------------
(* C3 *)

C3Case(p) ==
    /\ Ended(p, "check_cardinality")
    /\ AtMostOne(Analysis(loc[p]), "CARDINALITY")
    /\ ValueOr0(Analysis(loc[p]), "CARDINALITY") >= 0

\* C3: for cardinality >= 0, check_cardinality returns a HIGH_CARDINALITY
\* message with the attribute name and the raw cardinality iff
\* cardinality > 100 strictly; a record without a CARDINALITY entry gets
\* None, as one with CARDINALITY = 0 does.
C3_CardinalityThreshold ==
    \A p \in Procs :
        C3Case(p) =>
            LET cardinality == ValueOr0(Analysis(loc[p]), "CARDINALITY")
                r == loc[p].result
            IN  /\ IF cardinality > 100 * Scale
                   THEN /\ r.type = "str"
                        /\ r.template = "HIGH_CARDINALITY"
                        /\ r.name = loc[p].attribute_name
                        /\ IsFloat(r.value, cardinality, Scale)
                   ELSE r = ReturnNone
                /\ EntriesOf(Analysis(loc[p]), "CARDINALITY") = {}
                       => r = ReturnNone
                /\ cardinality = 0 => r = ReturnNone

\* A call that returned the message for a cardinality of 101.
C3_Witness ==
    \E p \in Procs :
        /\ C3Case(p)
        /\ loc[p].result.type = "str"
        /\ IsFloat(loc[p].result.value, 101, 1)

-----------------------------------------------------------------------------
(* C4 *)

C4Case(p) ==
    /\ Ended(p, "check_pearson_correlation")
    /\ AtMostOne(Analysis(loc[p]), "CORRELATION_COEFFICIENT")
    /\ Len(Analysis(loc[p]).features) = 2

\* C4: on a record of two features, check_pearson_correlation returns a
\* HIGH_CORRELATION message iff |c| > 0.30 strictly (absent c = 0), for
\* either sign; the message names the first and the second feature in that
\* order and its value is c rounded to 2 decimals, sign kept.
C4_CorrelationThreshold ==
    \A p \in Procs :
        C4Case(p) =>
            LET a == Analysis(loc[p])
                c == ValueOr0(a, "CORRELATION_COEFFICIENT")
                r == loc[p].result
            IN  IF 10 * Abs(c) > 3 * Scale
                THEN /\ r.type = "str"
                     /\ r.template = "HIGH_CORRELATION"
                     /\ r.name_one = a.features[1].name
                     /\ r.name_two = a.features[2].name
                     /\ r.value.fmt = ".2f"
                     /\ r.value.b = 2
                     /\ 2 * Abs(100 * c - r.value.a * Scale) <= Scale
                     /\ (c < 0) = (r.value.a < 0)
                ELSE r = ReturnNone

\* A call that returned the message for a negative coefficient, -0.45.
C4_Witness ==
    \E p \in Procs :
        /\ C4Case(p)
        /\ loc[p].result.type = "str"
        /\ loc[p].result.value.a = -45

-----------------------------------------------------------------------------
(* C5 *)

C5Case(p) ==
    /\ Ended(p, "check_p_value")
    /\ Len(Analysis(loc[p]).smetrics) >= 1
    /\ Len(Analysis(loc[p]).features) = 2

\* x shows v units in scientific notation: three digits a, of which one
\* before the point, and a decimal exponent b, within half a last digit of v.
\* (1/Scale is 10^-5 and a stands for a/100, so x is a * 10^(b+3) units.)
ShowsScientific(x, v) ==
    /\ x.fmt = ".2E"
    /\ x.a = 0 \/ (100 <= Abs(x.a) /\ Abs(x.a) <= 999)
    /\ IF x.b + 3 >= 0
       THEN 2 * Abs(v - x.a * 10 ^ (x.b + 3)) <= 10 ^ (x.b + 3)
       ELSE v * 10 ^ (-(x.b + 3)) = x.a

\* C5: check_p_value takes the value of the first entry, of whatever kind
\* and whatever follows, as the p-value: on a record with a non-empty metric
\* sequence and two features it returns a LOW_P_VALUE message iff that value
\* is < 0.05 strictly; the message has both feature names in order, the
\* display name of the analysis kind and the p-value in scientific notation.
C5_PValueFirstEntry ==
    \A p \in Procs :
        C5Case(p) =>
            LET a == Analysis(loc[p])
                v == a.smetrics[1].value
                r == loc[p].result
            IN  IF 100 * v < 5 * Scale
                THEN /\ r.type = "str"
                     /\ r.template = "LOW_P_VALUE"
                     /\ r.name_one = a.features[1].name
                     /\ r.name_two = a.features[2].name
                     /\ r.test_name = AnalysisNameName(a.name)
                     /\ ShowsScientific(r.value, v)
                ELSE r = ReturnNone

\* The message for 0.00031, shown as 3.10E-4, on a record whose first entry
\* is followed by another one.
C5_Witness ==
    \E p \in Procs :
        /\ C5Case(p)
        /\ Len(Analysis(loc[p]).smetrics) = 2
        /\ loc[p].result.type = "str"
        /\ loc[p].result.value = [fmt |-> ".2E", a |-> 310, b |-> -4]

-----------------------------------------------------------------------------
(* C6 *)

\* C6: on a record with an empty metric sequence check_p_value fails with an
\* index error, whatever the analysis kind and the features; it returns
\* neither None nor a message.
C6_EmptyMetricsIndexError ==
    \A p \in Procs :
        (loc[p].fn = "check_p_value" /\ Len(Analysis(loc[p]).smetrics) = 0) =>
            /\ loc[p].pc \in {"p_value_metric", "done"}
            /\ loc[p].pc = "done" => loc[p].result = IndexError

\* The index error on a record with two features and no metric.
C6_Witness ==
    \E p \in Procs :
        /\ Ended(p, "check_p_value")
        /\ Len(Analysis(loc[p]).smetrics) = 0
        /\ Len(Analysis(loc[p]).features) = 2
        /\ loc[p].result = IndexError

-----------------------------------------------------------------------------
(* C7 *)

\* C7: check_cardinality has no failure path: on every record it ends by
\* returning None or a message, also on the records on which check_missing
\* fails with the empty-dataset error (TOTAL_COUNT absent or 0).
C7_CardinalityNeverFails ==
    \A p \in Procs :
        loc[p].fn = "check_cardinality" =>
            /\ loc[p].result.type # "raise"
            /\ loc[p].pc = "done" => IsNormal(loc[p].result)

\* check_cardinality returned on a record without TOTAL_COUNT, on which
\* check_missing raises.
C7_Witness ==
    \E p \in Procs :
        /\ Ended(p, "check_cardinality")
        /\ TotalIsZero(Analysis(loc[p]))
        /\ RunAlone("check_missing", loc[p].attribute_name, loc[p].analysis,
                    Analysis(loc[p])) = ValueErrorEmpty
        /\ IsNormal(loc[p].result)

-----------------------------------------------------------------------------
(* C8 *)

\* The outcome a client kept is that of the same checker on the same
\* arguments as thread p's call.
SameCallAsMemo(p) ==
    /\ memo.set
    /\ loc[p].pc = "done"
    /\ loc[p].fn = memo.fn
    /\ loc[p].attribute_name = memo.attribute_name
    /\ loc[p].analysis = memo.analysis

SameOutcomeAgain == \A p \in Procs : SameCallAsMemo(p) => loc[p].result = memo.result

\* C8: no step of a checker, returning or failing, changes a record, and a
\* checker keeps nothing between calls: a call made after any calls gives
\* the outcome an earlier call of the same checker on the same record gave.
C8_RecordsUnchangedAndStateless ==
    [][records' = records /\ SameOutcomeAgain']_vars

\* A checker that failed, called again on the same record after its first
\* outcome was kept.
C8_Witness ==
    \E p \in Procs :
        /\ SameCallAsMemo(p)
        /\ memo.result.type = "raise"
        /\ loc[p].result = memo.result

-----------------------------------------------------------------------------
(* C9 *)

\* C9: whatever runs in parallel, on the same record or another, and however
\* the statements interleave, a call ends with the outcome it has when it
\* runs alone on its record.
C9_ParallelOutcomeAsAlone ==
    \A p \in Procs :
        loc[p].pc = "done" =>
            loc[p].result = RunAlone(loc[p].fn, loc[p].attribute_name,
                                     loc[p].analysis, Analysis(loc[p]))

\* Two calls of the same checker that ran at the same time on different
\* records and ended differently, one failing.
C9_Witness ==
    \E p, q \in Procs :
        /\ p # q
        /\ loc[p].pc = "done"
        /\ loc[q].pc = "done"
        /\ loc[p].fn = loc[q].fn
        /\ loc[p].analysis # loc[q].analysis
        /\ loc[p].result.type = "raise"
        /\ loc[q].result.type = "str"

-----------------------------------------------------------------------------
(* C10 *)

\* C10: the features are indexed only once the threshold is crossed.  With
\* fewer than two features check_pearson_correlation returns None when
\* |c| <= 0.30 and fails with an index error exactly when |c| > 0.30;
\* check_p_value, on a non-empty metric sequence, returns None when the first
\* value is >= 0.05 and fails with an index error exactly when it is < 0.05.
\* With more than two features neither fails for that reason and the message
\* names the first two.
C10_FeaturesIndexedAfterThreshold ==
    \A p \in Procs :
        LET a == Analysis(loc[p])
            r == loc[p].result
            n == Len(a.features)
        IN  /\ (/\ Ended(p, "check_pearson_correlation")
                /\ AtMostOne(a, "CORRELATION_COEFFICIENT")) =>
                   LET c == ValueOr0(a, "CORRELATION_COEFFICIENT")
                   IN  /\ n < 2 => IF 10 * Abs(c) > 3 * Scale
                                   THEN r = IndexError
                                   ELSE r = ReturnNone
                       /\ n > 2 => IF 10 * Abs(c) > 3 * Scale
                                   THEN /\ r.type = "str"
                                        /\ r.name_one = a.features[1].name
                                        /\ r.name_two = a.features[2].name
                                   ELSE r = ReturnNone
            /\ (/\ Ended(p, "check_p_value")
                /\ Len(a.smetrics) >= 1) =>
                   LET v == a.smetrics[1].value
                   IN  /\ n < 2 => IF 100 * v < 5 * Scale
                                   THEN r = IndexError
                                   ELSE r = ReturnNone
                       /\ n > 2 => IF 100 * v < 5 * Scale
                                   THEN /\ r.type = "str"
                                        /\ r.name_one = a.features[1].name
                                        /\ r.name_two = a.features[2].name
                                   ELSE r = ReturnNone

\* check_pearson_correlation returned None on a record with one feature and
\* a coefficient of exactly 0.30.
C10_Witness ==
    \E p \in Procs :
        /\ Ended(p, "check_pearson_correlation")
        /\ Len(Analysis(loc[p]).features) = 1
        /\ AtMostOne(Analysis(loc[p]), "CORRELATION_COEFFICIENT")
        /\ ValueOr0(Analysis(loc[p]), "CORRELATION_COEFFICIENT") = 3 * (Scale \div 10)
        /\ loc[p].result = ReturnNone

=============================================================================
